---- MODULE Spec2Model ----
(***************************************************************************)
(* Animation preview of the Excalibur spritesheet tool (App.tsx).         *)
(*                                                                         *)
(* The React state of the component is the state of the model; the        *)
(* variables frameIdx, lastTime, direction and anim are the locals that    *)
(* the animation preview effect closes over, rafPending says whether a     *)
(* requestAnimationFrame callback of that effect is scheduled.  Sequences  *)
(* are 1-based here and 0-based in the source: At(s, i) reads s[i].        *)
(***************************************************************************)
EXTENDS Integers, Sequences, FiniteSets, TLC

\* ---- bounds of the exploration --------------------------------------
MaxFrames == 4
MaxTime == 4
MaxDt == 2
MaxVisited == 6
MaxViews == 2
MaxAnimations == 2
MaxEditFrames == 3
MaxAuthorFrames == 2

\* ---- values ------------------------------------------------------------
NULL == -1
UNDEFINED == -2
LoopStrategies == {"Freeze", "End", "Loop", "PingPong"}
\* durations an author can store: the default duration input keeps any integer
\* (0 for an empty field) and addFrameToAnimation copies it; updateFrameDuration
\* keeps any integer but 0
Durations == {-1, 0, 1, 2}

VARIABLES
    image,             \* TRUE when an image is loaded
    animations,        \* Animation[]
    selectedAnimation, \* index into animations, or NULL
    isPlaying,
    currentFrameIdx,
    defaultDuration,
    frameIdx,          \* closure local of the preview effect
    lastTime,          \* closure local of the preview effect
    direction,         \* closure local of the preview effect
    anim,              \* closure local of the preview effect
    rafPending,        \* a requestAnimationFrame(animate) is outstanding
    pendingSet,        \* an effect called setCurrentFrameIdx(0), not yet rendered
    now,               \* performance.now()
    error,             \* an uncaught TypeError was thrown
    visited,           \* values given to currentFrameIdx since the last user event
    startTime,         \* time of the last user event
    parseMode,         \* "grid", "sourceview" or NoParseMode
    gridConfig,
    sourceViews,       \* SourceView[]
    selectedSourceView,
    frames,            \* Frame[]
    rafCount,          \* number of requestAnimationFrame callbacks not yet run or cancelled
    timerRef,          \* animationTimerRef.current: "null", "live" or "stale" (run or cancelled)
    effectCleanup,     \* the last run of the preview effect returned its cleanup
    stepEntered        \* time at which the current step was committed or playback started

reactVars == <<image, animations, selectedAnimation, isPlaying, currentFrameIdx, defaultDuration>>
closureVars == <<frameIdx, lastTime, direction, anim, rafPending>>
geomVars == <<parseMode, gridConfig, sourceViews, selectedSourceView, frames>>
timerVars == <<rafCount, timerRef, effectCleanup>>
vars == <<image, animations, selectedAnimation, isPlaying, currentFrameIdx, defaultDuration,
          frameIdx, lastTime, direction, anim, rafPending, pendingSet, now, error,
          visited, startTime, parseMode, gridConfig, sourceViews, selectedSourceView, frames,
          rafCount, timerRef, effectCleanup, stepEntered>>

\* s[i] with the source's 0-based index
At(s, i) == s[i + 1]

InRange(s, i) == i >= 0 /\ i < Len(s)

NoAnim == [name |-> "", frames |-> <<>>, loopStrategy |-> "Loop"]

\* ---- animate: the three strategy branches --------------------------------

\* variant: the bounce at the end returns to the last index instead of the one before
PingPongStepOffByOne(f, d, len) ==
    LET f1 == f + d IN
    IF f1 >= len THEN [frameIdx |-> len - 1, direction |-> -1]
    ELSE IF f1 < 0 THEN [frameIdx |-> 1, direction |-> 1]
    ELSE [frameIdx |-> f1, direction |-> d]

\* frameIdx += direction, then the two bounce tests
PingPongStep(f, d, len) ==
    LET f1 == f + d IN
    IF f1 >= len THEN [frameIdx |-> len - 2, direction |-> -1]
    ELSE IF f1 < 0 THEN [frameIdx |-> 1, direction |-> 1]
    ELSE [frameIdx |-> f1, direction |-> d]

\* variant: the increment without the modulo
LoopStepNoWrap(f, len) == f + 1

\* frameIdx = (frameIdx + 1) % anim.frames.length
LoopStep(f, len) == (f + 1) % len

\* variant: Freeze stops at the end as End does
FreezeEndStepAlwaysStops(f, len, strategy) ==
    LET f1 == f + 1 IN
    IF f1 >= len
    THEN [kind |-> "stop", frameIdx |-> f1]
    ELSE [kind |-> "advance", frameIdx |-> f1]

\* variant: End runs past the last index instead of stopping
FreezeEndStepNoStop(f, len, strategy) ==
    LET f1 == f + 1 IN
    IF f1 >= len /\ strategy = "Freeze"
    THEN [kind |-> "advance", frameIdx |-> len - 1]
    ELSE [kind |-> "advance", frameIdx |-> f1]

\* frameIdx++, then Freeze pins to the last index and End stops
FreezeEndStep(f, len, strategy) ==
    LET f1 == f + 1 IN
    IF f1 >= len
    THEN IF strategy = "Freeze"
         THEN [kind |-> "advance", frameIdx |-> len - 1]
         ELSE [kind |-> "stop", frameIdx |-> f1]
    ELSE [kind |-> "advance", frameIdx |-> f1]

\* variant: the comparison is off by one time unit
DurationElapsedOffByOne(elapsed, duration) == elapsed + 1 >= duration

\* elapsed >= currentAnimFrame.duration
DurationElapsed(elapsed, duration) == elapsed >= duration

\* variant: lastTime += duration, which keeps the remainder
CommitTimeKeepRemainder(last, currentTime, duration) == last + duration

\* lastTime = currentTime
CommitTime(last, currentTime, duration) == currentTime

\* variant: animate looks the step's frame up in Frame[] and throws when it is absent
AnimateThrowsOnMissingFrame(f, last, d, a, currentTime) ==
    LET elapsed == currentTime - last
        len == Len(a.frames)
    IN
    IF ~InRange(a.frames, f) \/ ~InRange(frames, At(a.frames, f).frameIndex)
    THEN [kind |-> "throw", frameIdx |-> f, lastTime |-> last, direction |-> d]
    ELSE IF ~DurationElapsed(elapsed, At(a.frames, f).duration)
    THEN [kind |-> "wait", frameIdx |-> f, lastTime |-> last, direction |-> d]
    ELSE LET t == CommitTime(last, currentTime, At(a.frames, f).duration) IN
         IF a.loopStrategy = "PingPong"
         THEN LET p == PingPongStep(f, d, len) IN
              [kind |-> "advance", frameIdx |-> p.frameIdx, lastTime |-> t,
               direction |-> p.direction]
         ELSE IF a.loopStrategy = "Loop"
         THEN [kind |-> "advance", frameIdx |-> LoopStep(f, len), lastTime |-> t,
               direction |-> d]
         ELSE LET s == FreezeEndStep(f, len, a.loopStrategy) IN
              [kind |-> s.kind, frameIdx |-> s.frameIdx, lastTime |-> t, direction |-> d]

\* One call of animate(currentTime) on the closure (f, last, d, a).
\* kind: "throw" (anim.frames[frameIdx] is undefined), "wait", "advance", "stop"
Animate(f, last, d, a, currentTime) ==
    LET elapsed == currentTime - last
        len == Len(a.frames)
    IN
    IF ~InRange(a.frames, f)
    THEN [kind |-> "throw", frameIdx |-> f, lastTime |-> last, direction |-> d]
    ELSE IF ~DurationElapsed(elapsed, At(a.frames, f).duration)
    THEN [kind |-> "wait", frameIdx |-> f, lastTime |-> last, direction |-> d]
    ELSE LET t == CommitTime(last, currentTime, At(a.frames, f).duration) IN
         IF a.loopStrategy = "PingPong"
         THEN LET p == PingPongStep(f, d, len) IN
              [kind |-> "advance", frameIdx |-> p.frameIdx, lastTime |-> t,
               direction |-> p.direction]
         ELSE IF a.loopStrategy = "Loop"
         THEN [kind |-> "advance", frameIdx |-> LoopStep(f, len), lastTime |-> t,
               direction |-> d]
         ELSE LET s == FreezeEndStep(f, len, a.loopStrategy) IN
              [kind |-> s.kind, frameIdx |-> s.frameIdx, lastTime |-> t, direction |-> d]

\* ---- effects -------------------------------------------------------------

\* variant: the reset effect depends on the selection only
ResetDepsSelectionOnly(sel, anims) == <<sel, UNDEFINED>>

\* the dependency list of the reset effect
ResetDeps(sel, anims) ==
    LET i == IF sel = NULL THEN 0 ELSE sel IN
    <<sel, IF InRange(anims, i) THEN Len(At(anims, i).frames) ELSE UNDEFINED>>

\* the draw preview effect reaches setCurrentFrameIdx(0)
DrawEffectResets(img, sel, anims, cfi) ==
    /\ img
    /\ sel # NULL
    /\ InRange(anims, sel)
    /\ Len(At(anims, sel).frames) # 0
    /\ ~InRange(At(anims, sel).frames, cfi)

\* variant: the effect without its test for an empty frame list
EffectSchedulesNoEmptyGuard(anims, sel, playing) ==
    /\ playing
    /\ sel # NULL
    /\ InRange(anims, sel)

\* the preview effect gets as far as requestAnimationFrame(animate)
EffectSchedules(anims, sel, playing) ==
    /\ playing
    /\ sel # NULL
    /\ InRange(anims, sel)
    /\ Len(At(anims, sel).frames) # 0

\* let direction = 1
InitialDirection == 1

\* variant: lastTime starts at 0 instead of performance.now()
RunPreviewEffectZeroTime(anims, sel, playing, cfi) ==
    IF EffectSchedules(anims, sel, playing)
    THEN /\ frameIdx' = cfi
         /\ lastTime' = 0
         /\ direction' = InitialDirection
         /\ anim' = At(anims, sel)
         /\ rafPending' = TRUE
    ELSE /\ frameIdx' = 0
         /\ lastTime' = 0
         /\ direction' = InitialDirection
         /\ anim' = NoAnim
         /\ rafPending' = FALSE

\* The preview effect runs (after its cleanup) on the state (anims, sel, playing, cfi).
\* The locals of a closure that is not scheduled are dead and kept at fixed values.
RunPreviewEffect(anims, sel, playing, cfi) ==
    IF EffectSchedules(anims, sel, playing)
    THEN /\ frameIdx' = cfi
         /\ lastTime' = now'
         /\ direction' = InitialDirection
         /\ anim' = At(anims, sel)
         /\ rafPending' = TRUE
    ELSE /\ frameIdx' = 0
         /\ lastTime' = 0
         /\ direction' = InitialDirection
         /\ anim' = NoAnim
         /\ rafPending' = FALSE

\* cancelAnimationFrame(animationTimerRef.current) on a count of outstanding callbacks
CancelTimer(count, ref) == IF ref = "live" THEN count - 1 ELSE count

\* variant: the effect returns no cleanup, the outstanding callback is not cancelled
RunEffectTimerNoCleanup(count0, ref0, anims, sel, playing) ==
    IF ~playing \/ sel = NULL
    THEN /\ rafCount' = CancelTimer(count0, ref0)
         /\ timerRef' = "null"
         /\ effectCleanup' = FALSE
    ELSE IF ~EffectSchedules(anims, sel, playing)
    THEN /\ rafCount' = count0
         /\ timerRef' = ref0
         /\ effectCleanup' = FALSE
    ELSE /\ rafCount' = count0 + 1
         /\ timerRef' = "live"
         /\ effectCleanup' = FALSE

\* The timer side of a run of the preview effect: the cleanup of the previous
\* run, the cancel of the not-playing branch, the request of the playing one.
\* count0 and ref0 are the callbacks outstanding and the ref before the run.
RunEffectTimer(count0, ref0, anims, sel, playing) ==
    LET c1 == IF effectCleanup THEN CancelTimer(count0, ref0) ELSE count0
        r1 == IF effectCleanup /\ ref0 = "live" THEN "stale" ELSE ref0
    IN
    IF ~playing \/ sel = NULL
    THEN /\ rafCount' = CancelTimer(c1, r1)
         /\ timerRef' = "null"
         /\ effectCleanup' = FALSE
    ELSE IF ~EffectSchedules(anims, sel, playing)
    THEN /\ rafCount' = c1
         /\ timerRef' = r1
         /\ effectCleanup' = FALSE
    ELSE /\ rafCount' = c1 + 1
         /\ timerRef' = "live"
         /\ effectCleanup' = TRUE

\* A user event handler left the React state (anims, sel, playing, cfi);
\* replaced says that setAnimations was given a new array.  React renders and
\* runs the effects until no effect sets state any more, inside the event.
Commit(anims, replaced, sel, playing, cfi) ==
    LET resetFires == ResetDeps(sel, anims) # ResetDeps(selectedAnimation, animations)
        cfi2 == IF resetFires \/ DrawEffectResets(image', sel, anims, cfi) THEN 0 ELSE cfi
        rerun == \/ replaced
                 \/ sel # selectedAnimation
                 \/ playing # isPlaying
                 \/ cfi # currentFrameIdx
                 \/ cfi2 # cfi
    IN
    /\ animations' = anims
    /\ selectedAnimation' = sel
    /\ isPlaying' = playing
    /\ currentFrameIdx' = cfi2
    /\ pendingSet' = FALSE
    /\ IF rerun
       THEN /\ RunPreviewEffect(anims, sel, playing, cfi2)
            /\ RunEffectTimer(rafCount, timerRef, anims, sel, playing)
       ELSE UNCHANGED <<closureVars, timerVars>>
    /\ visited' = <<cfi2>>
    /\ startTime' = now'
    /\ stepEntered' = IF (playing /\ ~isPlaying) \/ cfi2 # currentFrameIdx
                      THEN now'
                      ELSE stepEntered
    /\ UNCHANGED error

\* ---- playback actions ----------------------------------------------------

\* the Play / Pause button
TogglePlay ==
    /\ selectedAnimation # NULL
    /\ ~pendingSet
    /\ UNCHANGED <<image, defaultDuration, now, geomVars>>
    /\ Commit(animations, FALSE, selectedAnimation, ~isPlaying, currentFrameIdx)

\* the Restart button
Restart ==
    /\ selectedAnimation # NULL
    /\ ~pendingSet
    /\ UNCHANGED <<image, defaultDuration, now, geomVars>>
    /\ Commit(animations, FALSE, selectedAnimation, FALSE, 0)

\* time passes while no callback is scheduled
TimePasses(dt) ==
    /\ ~rafPending
    /\ ~pendingSet
    /\ dt > 0
    /\ now + dt <= MaxTime
    /\ now' = now + dt
    /\ UNCHANGED <<reactVars, closureVars, pendingSet, error, visited, startTime, geomVars,
                   timerVars, stepEntered>>

\* the browser calls animate(currentTime), dt after the previous event
Tick(dt) ==
    /\ rafPending
    /\ now + dt <= MaxTime
    /\ Len(visited) < MaxVisited
    /\ now' = now + dt
    /\ UNCHANGED <<image, animations, selectedAnimation, defaultDuration, startTime, geomVars>>
    /\ LET r == Animate(frameIdx, lastTime, direction, anim, now') IN
       CASE r.kind = "throw" ->
              /\ error' = TRUE
              /\ rafPending' = FALSE
              /\ rafCount' = rafCount - 1
              /\ timerRef' = "stale"
              /\ UNCHANGED <<isPlaying, currentFrameIdx, frameIdx, lastTime, direction, anim,
                             pendingSet, visited, effectCleanup, stepEntered>>
         [] r.kind = "wait" ->
              /\ rafCount' = (rafCount - 1) + 1
              /\ timerRef' = "live"
              /\ UNCHANGED <<isPlaying, currentFrameIdx, closureVars, pendingSet, error, visited,
                             effectCleanup, stepEntered>>
         [] r.kind = "stop" ->
              /\ isPlaying' = FALSE
              /\ RunPreviewEffect(animations, selectedAnimation, FALSE, currentFrameIdx)
              /\ RunEffectTimer(rafCount - 1, "stale", animations, selectedAnimation, FALSE)
              /\ UNCHANGED <<currentFrameIdx, pendingSet, error, visited, stepEntered>>
         [] r.kind = "advance" ->
              /\ currentFrameIdx' = r.frameIdx
              /\ visited' = Append(visited, r.frameIdx)
              /\ pendingSet' = (pendingSet \/ (r.frameIdx # currentFrameIdx
                      /\ DrawEffectResets(image, selectedAnimation, animations, r.frameIdx)))
              /\ stepEntered' = now'
              /\ UNCHANGED <<isPlaying, error>>
              /\ IF r.frameIdx # currentFrameIdx
                 THEN /\ RunPreviewEffect(animations, selectedAnimation, isPlaying, r.frameIdx)
                      /\ RunEffectTimer((rafCount - 1) + 1, "live", animations,
                                        selectedAnimation, isPlaying)
                 ELSE /\ frameIdx' = r.frameIdx
                      /\ lastTime' = r.lastTime
                      /\ direction' = r.direction
                      /\ rafCount' = (rafCount - 1) + 1
                      /\ timerRef' = "live"
                      /\ UNCHANGED <<anim, rafPending, effectCleanup>>

\* React renders the setCurrentFrameIdx(0) that the draw preview effect asked for
Rerender ==
    /\ pendingSet
    /\ pendingSet' = FALSE
    /\ currentFrameIdx' = 0
    /\ visited' = Append(visited, 0)
    /\ now' = now
    /\ stepEntered' = now
    /\ IF currentFrameIdx # 0
       THEN /\ RunPreviewEffect(animations, selectedAnimation, isPlaying, 0)
            /\ RunEffectTimer(rafCount, timerRef, animations, selectedAnimation, isPlaying)
       ELSE UNCHANGED <<closureVars, timerVars>>
    /\ UNCHANGED <<image, animations, selectedAnimation, isPlaying, defaultDuration, error,
                   startTime, geomVars>>

\* ---- frame geometry ----------------------------------------------------------

NoParseMode == "null"

\* useState<GridConfig>({...})
DefaultGridConfig ==
    [spriteWidth |-> 32, spriteHeight |-> 32, rows |-> 1, columns |-> 1,
     originOffset |-> [x |-> 0, y |-> 0], margin |-> [x |-> 0, y |-> 0]]

\* parseInt(e.target.value) || d
ParseIntOr(n, d) == IF n = 0 THEN d ELSE n

\* variant: the index is not incremented inside a row
RECURSIVE GridLoopIndexPerRow(_, _, _, _, _)
GridLoopIndexPerRow(g, row, col, index, acc) ==
    IF row >= g.rows THEN acc
    ELSE IF col >= g.columns THEN GridLoopIndexPerRow(g, row + 1, 0, index + 1, acc)
    ELSE GridLoopIndexPerRow(g, row, col + 1, index,
            Append(acc, [index  |-> index,
                         x      |-> g.originOffset.x + col * (g.spriteWidth + g.margin.x),
                         y      |-> g.originOffset.y + row * (g.spriteHeight + g.margin.y),
                         width  |-> g.spriteWidth,
                         height |-> g.spriteHeight]))

\* variant: the margin is left out of the column pitch
RECURSIVE GridLoopNoMargin(_, _, _, _, _)
GridLoopNoMargin(g, row, col, index, acc) ==
    IF row >= g.rows THEN acc
    ELSE IF col >= g.columns THEN GridLoopNoMargin(g, row + 1, 0, index, acc)
    ELSE GridLoopNoMargin(g, row, col + 1, index + 1,
            Append(acc, [index  |-> index,
                         x      |-> g.originOffset.x + col * g.spriteWidth,
                         y      |-> g.originOffset.y + row * (g.spriteHeight + g.margin.y),
                         width  |-> g.spriteWidth,
                         height |-> g.spriteHeight]))

\* variant: the row loop runs at least once
RECURSIVE GridLoopAtLeastOneRow(_, _, _, _, _)
GridLoopAtLeastOneRow(g, row, col, index, acc) ==
    IF row >= g.rows /\ row > 0 THEN acc
    ELSE IF col >= g.columns THEN GridLoopAtLeastOneRow(g, row + 1, 0, index, acc)
    ELSE GridLoopAtLeastOneRow(g, row, col + 1, index + 1,
            Append(acc, [index  |-> index,
                         x      |-> g.originOffset.x + col * (g.spriteWidth + g.margin.x),
                         y      |-> g.originOffset.y + row * (g.spriteHeight + g.margin.y),
                         width  |-> g.spriteWidth,
                         height |-> g.spriteHeight]))

\* the two loops of parseGridFrames, from (row, col) with the counter index
\* and the frames pushed so far
RECURSIVE GridLoop(_, _, _, _, _)
GridLoop(g, row, col, index, acc) ==
    IF row >= g.rows THEN acc
    ELSE IF col >= g.columns THEN GridLoop(g, row + 1, 0, index, acc)
    ELSE GridLoop(g, row, col + 1, index + 1,
            Append(acc, [index  |-> index,
                         x      |-> g.originOffset.x + col * (g.spriteWidth + g.margin.x),
                         y      |-> g.originOffset.y + row * (g.spriteHeight + g.margin.y),
                         width  |-> g.spriteWidth,
                         height |-> g.spriteHeight]))

\* parseGridFrames: the value of frames after the call (old when it returns early)
ParseGridFrames(img, g, old) ==
    IF ~img THEN old ELSE GridLoop(g, 0, 0, 0, <<>>)

\* variant: the index counts from 1
ParseSourceViewFramesOneBased(svs) ==
    [i \in 1..Len(svs) |->
        [index |-> i, x |-> svs[i].x, y |-> svs[i].y,
         width |-> svs[i].width, height |-> svs[i].height]]

\* parseSourceViewFrames: sourceViews.map((sv, index) => ...)
ParseSourceViewFrames(svs) ==
    [i \in 1..Len(svs) |->
        [index |-> i - 1, x |-> svs[i].x, y |-> svs[i].y,
         width |-> svs[i].width, height |-> svs[i].height]]

\* the effect on [parseMode, gridConfig, sourceViews, image]: frames after it ran
ResolveFrames(mode, g, svs, img, old) ==
    IF mode = "grid" THEN ParseGridFrames(img, g, old)
    ELSE IF mode = "sourceview" THEN ParseSourceViewFrames(svs)
    ELSE old

\* variant: the mode buttons are rendered without an image too
ParseModeButtonsShownAlways(img) == TRUE

\* {image && (... Parse Mode buttons ...)}
ParseModeButtonsShown(img) == img

\* generateCode returns "" at its first line
EmitsNothing(img, frs) == ~img \/ Len(frs) = 0

\* variant: the handler leaves the frame list as it was
LoadImageKeepsFrames ==
    /\ ~pendingSet
    /\ image' = TRUE
    /\ parseMode' = NoParseMode
    /\ sourceViews' = <<>>
    /\ frames' = frames
    /\ UNCHANGED <<gridConfig, selectedSourceView, defaultDuration, now>>
    /\ Commit(animations, FALSE, selectedAnimation, isPlaying, currentFrameIdx)

\* img.onload of handleImageLoad
LoadImage ==
    /\ ~pendingSet
    /\ image' = TRUE
    /\ parseMode' = NoParseMode
    /\ sourceViews' = <<>>
    /\ frames' = ResolveFrames(NoParseMode, gridConfig, <<>>, TRUE, <<>>)
    /\ UNCHANGED <<gridConfig, selectedSourceView, defaultDuration, now>>
    /\ Commit(animations, FALSE, selectedAnimation, isPlaying, currentFrameIdx)

\* the Grid-Based and Irregular (Manual) buttons
SetParseMode(m) ==
    /\ ~pendingSet
    /\ ParseModeButtonsShown(image)
    /\ parseMode' = m
    /\ frames' = ResolveFrames(m, gridConfig, sourceViews, image, frames)
    /\ UNCHANGED <<image, gridConfig, sourceViews, selectedSourceView, defaultDuration, now>>
    /\ Commit(animations, FALSE, selectedAnimation, isPlaying, currentFrameIdx)

GridFields == {"spriteWidth", "spriteHeight", "rows", "columns",
               "originOffset.x", "originOffset.y", "margin.x", "margin.y"}

\* setGridConfig({ ...gridConfig, field: parseInt(value) || d }) of the eight inputs
WithGridField(g, field, n) ==
    CASE field = "spriteWidth"    -> [g EXCEPT !.spriteWidth = ParseIntOr(n, 0)]
      [] field = "spriteHeight"   -> [g EXCEPT !.spriteHeight = ParseIntOr(n, 0)]
      [] field = "rows"           -> [g EXCEPT !.rows = ParseIntOr(n, 1)]
      [] field = "columns"        -> [g EXCEPT !.columns = ParseIntOr(n, 1)]
      [] field = "originOffset.x" -> [g EXCEPT !.originOffset.x = ParseIntOr(n, 0)]
      [] field = "originOffset.y" -> [g EXCEPT !.originOffset.y = ParseIntOr(n, 0)]
      [] field = "margin.x"       -> [g EXCEPT !.margin.x = ParseIntOr(n, 0)]
      [] field = "margin.y"       -> [g EXCEPT !.margin.y = ParseIntOr(n, 0)]

\* an onChange of the Grid Config panel
SetGridConfig(field, n) ==
    /\ ~pendingSet
    /\ parseMode = "grid"
    /\ gridConfig' = WithGridField(gridConfig, field, n)
    /\ frames' = ResolveFrames(parseMode, gridConfig', sourceViews, image, frames)
    /\ UNCHANGED <<image, parseMode, sourceViews, selectedSourceView, defaultDuration, now>>
    /\ Commit(animations, FALSE, selectedAnimation, isPlaying, currentFrameIdx)

\* addSourceView
AddSourceView ==
    /\ ~pendingSet
    /\ parseMode = "sourceview"
    /\ sourceViews' = Append(sourceViews,
            [x |-> 0, y |-> 0, width |-> gridConfig.spriteWidth,
             height |-> gridConfig.spriteHeight])
    /\ selectedSourceView' = Len(sourceViews)
    /\ frames' = ResolveFrames(parseMode, gridConfig, sourceViews', image, frames)
    /\ UNCHANGED <<image, parseMode, gridConfig, defaultDuration, now>>
    /\ Commit(animations, FALSE, selectedAnimation, isPlaying, currentFrameIdx)

ViewFields == {"x", "y", "width", "height"}

\* updateSourceView(index, { field: parseInt(value) || 0 })
UpdateSourceView(index, field, n) ==
    /\ ~pendingSet
    /\ parseMode = "sourceview"
    /\ InRange(sourceViews, index)
    /\ sourceViews' = [sourceViews EXCEPT ![index + 1][field] = ParseIntOr(n, 0)]
    /\ frames' = ResolveFrames(parseMode, gridConfig, sourceViews', image, frames)
    /\ UNCHANGED <<image, parseMode, gridConfig, selectedSourceView, defaultDuration, now>>
    /\ Commit(animations, FALSE, selectedAnimation, isPlaying, currentFrameIdx)

\* s.filter((_, idx) => idx !== i)
RemoveAt(s, i) ==
    [k \in 1..(Len(s) - (IF InRange(s, i) THEN 1 ELSE 0)) |->
        IF k <= i THEN s[k] ELSE s[k + 1]]

\* animations with the references to frame index renumbered after its removal
WithoutFrameReference(anims, index) ==
    [i \in 1..Len(anims) |->
        [anims[i] EXCEPT !.frames =
            [k \in 1..Len(@) |->
                IF @[k].frameIndex > index
                THEN [@[k] EXCEPT !.frameIndex = @ - 1]
                ELSE @[k]]]]

\* variant: the delete button renumbers the references of the animations
DeleteSourceViewRenumbers(index) ==
    /\ ~pendingSet
    /\ parseMode = "sourceview"
    /\ InRange(sourceViews, index)
    /\ sourceViews' = RemoveAt(sourceViews, index)
    /\ frames' = ResolveFrames(parseMode, gridConfig, sourceViews', image, frames)
    /\ UNCHANGED <<image, parseMode, gridConfig, selectedSourceView, defaultDuration, now>>
    /\ Commit(WithoutFrameReference(animations, index), TRUE, selectedAnimation, isPlaying,
              currentFrameIdx)

\* the delete button of a source view
DeleteSourceView(index) ==
    /\ ~pendingSet
    /\ parseMode = "sourceview"
    /\ InRange(sourceViews, index)
    /\ sourceViews' = RemoveAt(sourceViews, index)
    /\ frames' = ResolveFrames(parseMode, gridConfig, sourceViews', image, frames)
    /\ UNCHANGED <<image, parseMode, gridConfig, selectedSourceView, defaultDuration, now>>
    /\ Commit(animations, FALSE, selectedAnimation, isPlaying, currentFrameIdx)

\* ---- animation management ---------------------------------------------------

\* `Animation${animations.length + 1}`
AnimationName(n) ==
    <<"Animation1", "Animation2", "Animation3", "Animation4", "Animation5", "Animation6">>[n]

\* addAnimation
AddAnimation ==
    /\ ~pendingSet
    /\ Len(animations) < MaxAnimations
    /\ UNCHANGED <<image, defaultDuration, now, geomVars>>
    /\ Commit(Append(animations,
                     [name |-> AnimationName(Len(animations) + 1), frames |-> <<>>,
                      loopStrategy |-> "Loop"]),
              TRUE, Len(animations), isPlaying, currentFrameIdx)

\* variant: the card only selects, the step and the playing signal are left alone
SelectAnimationKeepsStep(i) ==
    /\ ~pendingSet
    /\ InRange(animations, i)
    /\ UNCHANGED <<image, defaultDuration, now, geomVars>>
    /\ Commit(animations, FALSE, i, isPlaying, currentFrameIdx)

\* onClick of an animation card
SelectAnimation(i) ==
    /\ ~pendingSet
    /\ InRange(animations, i)
    /\ UNCHANGED <<image, defaultDuration, now, geomVars>>
    /\ Commit(animations, FALSE, i, FALSE, 0)

\* variant: the selection is cleared or kept, never decremented
DeleteAnimationNoDecrement(index) ==
    /\ ~pendingSet
    /\ InRange(animations, index)
    /\ UNCHANGED <<image, defaultDuration, now, geomVars>>
    /\ Commit(RemoveAt(animations, index), TRUE,
              IF selectedAnimation = index THEN NULL ELSE selectedAnimation,
              isPlaying, currentFrameIdx)

\* deleteAnimation
DeleteAnimation(index) ==
    /\ ~pendingSet
    /\ InRange(animations, index)
    /\ UNCHANGED <<image, defaultDuration, now, geomVars>>
    /\ Commit(RemoveAt(animations, index), TRUE,
              IF selectedAnimation = index THEN NULL
              ELSE IF selectedAnimation # NULL /\ selectedAnimation > index
                   THEN selectedAnimation - 1
                   ELSE selectedAnimation,
              isPlaying, currentFrameIdx)

\* updateAnimation(i, { name }) of the name input of a card
RenameAnimation(i, name) ==
    /\ ~pendingSet
    /\ InRange(animations, i)
    /\ UNCHANGED <<image, defaultDuration, now, geomVars>>
    /\ Commit([animations EXCEPT ![i + 1].name = name], TRUE,
              selectedAnimation, isPlaying, currentFrameIdx)

\* updateAnimation(i, { loopStrategy })
SetLoopStrategy(i, strategy) ==
    /\ ~pendingSet
    /\ InRange(animations, i)
    /\ UNCHANGED <<image, defaultDuration, now, geomVars>>
    /\ Commit([animations EXCEPT ![i + 1].loopStrategy = strategy], TRUE,
              selectedAnimation, isPlaying, currentFrameIdx)

\* addFrameToAnimation, from the Add Frame select of the selected card or from
\* a click on a frame of the spritesheet canvas
AddFrameToAnimation(frameIndex) ==
    /\ ~pendingSet
    /\ selectedAnimation # NULL
    /\ \E k \in 1..Len(frames) : frames[k].index = frameIndex
    /\ Len(At(animations, selectedAnimation).frames) < MaxEditFrames
    /\ UNCHANGED <<image, defaultDuration, now, geomVars>>
    /\ Commit([animations EXCEPT ![selectedAnimation + 1].frames =
                    Append(@, [frameIndex |-> frameIndex, duration |-> defaultDuration])],
              TRUE, selectedAnimation, isPlaying, currentFrameIdx)

\* s.filter(f => f.frameIndex !== frameIndex)
WithoutFrameIndex(s, frameIndex) == SelectSeq(s, LAMBDA f : f.frameIndex # frameIndex)

\* variant: the step is removed by the frame it shows, not by its position
RemoveFrameByFrameIndex(pos) ==
    /\ ~pendingSet
    /\ selectedAnimation # NULL
    /\ InRange(At(animations, selectedAnimation).frames, pos)
    /\ UNCHANGED <<image, defaultDuration, now, geomVars>>
    /\ Commit([animations EXCEPT ![selectedAnimation + 1].frames =
                    WithoutFrameIndex(@, At(@, pos).frameIndex)],
              TRUE, selectedAnimation, isPlaying, currentFrameIdx)

\* removeFrameFromAnimation
RemoveFrameFromAnimation(pos) ==
    /\ ~pendingSet
    /\ selectedAnimation # NULL
    /\ InRange(At(animations, selectedAnimation).frames, pos)
    /\ UNCHANGED <<image, defaultDuration, now, geomVars>>
    /\ Commit([animations EXCEPT ![selectedAnimation + 1].frames = RemoveAt(@, pos)],
              TRUE, selectedAnimation, isPlaying, currentFrameIdx)

\* updateFrameDuration(i, frameIdx, parseInt(value) || 150)
UpdateFrameDuration(pos, n) ==
    /\ ~pendingSet
    /\ selectedAnimation # NULL
    /\ InRange(At(animations, selectedAnimation).frames, pos)
    /\ UNCHANGED <<image, defaultDuration, now, geomVars>>
    /\ Commit([animations EXCEPT ![selectedAnimation + 1].frames[pos + 1].duration =
                    ParseIntOr(n, 150)],
              TRUE, selectedAnimation, isPlaying, currentFrameIdx)

\* setDefaultDuration(parseInt(value) || 0)
SetDefaultDuration(n) ==
    /\ ~pendingSet
    /\ defaultDuration' = ParseIntOr(n, 0)
    /\ UNCHANGED <<image, now, geomVars>>
    /\ Commit(animations, FALSE, selectedAnimation, isPlaying, currentFrameIdx)

\* ---- generateCode ----------------------------------------------------------------

\* the characters a number is written with
DigitChar(d) == <<"0", "1", "2", "3", "4", "5", "6", "7", "8", "9">>[d + 1]

\* `${n}` for a number n >= 0: its decimal digits
RECURSIVE FormatNat(_)
FormatNat(n) ==
    IF n < 10 THEN <<DigitChar(n)>> ELSE Append(FormatNat(n \div 10), DigitChar(n % 10))

\* `${n}` for an integer n
FormatInt(n) == IF n < 0 THEN <<"-">> \o FormatNat(0 - n) ELSE FormatNat(n)

\* strategyMap
StrategyMap(strategy) ==
    CASE strategy = "Loop" -> "Loop"
      [] strategy = "Freeze" -> "Freeze"
      [] strategy = "End" -> "End"
      [] strategy = "PingPong" -> "PingPong"

\* variant: only the origin offset decides whether spacing is written
HasSpacingOffsetOnly(g) == g.originOffset.x # 0 \/ g.originOffset.y # 0

\* const hasSpacing
HasSpacing(g) ==
    g.originOffset.x # 0 \/ g.originOffset.y # 0 \/ g.margin.x # 0 \/ g.margin.y # 0

\* the argument of SpriteSheet.fromImageSource / fromImageSourceWithSourceViews;
\* spacing is a list with the spacing object, or empty when it is not written
EmitGeometry(mode, g, svs) ==
    IF mode = "grid"
    THEN [kind |-> "grid",
          grid |-> [rows |-> FormatInt(g.rows), columns |-> FormatInt(g.columns),
                    spriteWidth |-> FormatInt(g.spriteWidth),
                    spriteHeight |-> FormatInt(g.spriteHeight)],
          spacing |-> IF HasSpacing(g)
                      THEN <<[originOffset |-> [x |-> FormatInt(g.originOffset.x),
                                                y |-> FormatInt(g.originOffset.y)],
                              margin |-> [x |-> FormatInt(g.margin.x),
                                          y |-> FormatInt(g.margin.y)]]>>
                      ELSE <<>>,
          sourceViews |-> <<>>]
    ELSE IF mode = "sourceview"
    THEN [kind |-> "sourceViews",
          grid |-> <<>>,
          spacing |-> <<>>,
          sourceViews |-> [i \in 1..Len(svs) |->
                              [x |-> FormatInt(svs[i].x), y |-> FormatInt(svs[i].y),
                               width |-> FormatInt(svs[i].width),
                               height |-> FormatInt(svs[i].height)]]]
    ELSE [kind |-> "none", grid |-> <<>>, spacing |-> <<>>, sourceViews |-> <<>>]

\* variant: the last frame of every animation is left out
EmitAnimationsWithoutLastFrame(anims) ==
    [i \in 1..Len(anims) |->
        [name |-> anims[i].name,
         frames |-> [k \in 1..(Len(anims[i].frames) - 1) |->
                        [graphic |-> FormatInt(anims[i].frames[k].frameIndex),
                         duration |-> FormatInt(anims[i].frames[k].duration)]],
         strategy |-> StrategyMap(anims[i].loopStrategy)]]

\* animations.forEach: the entries of the exported object, in the order written
EmitAnimations(anims) ==
    [i \in 1..Len(anims) |->
        [name |-> anims[i].name,
         frames |-> [k \in 1..Len(anims[i].frames) |->
                        [graphic |-> FormatInt(anims[i].frames[k].frameIndex),
                         duration |-> FormatInt(anims[i].frames[k].duration)]],
         strategy |-> StrategyMap(anims[i].loopStrategy)]]

\* generateCode: no text is the empty list, a text is the list of its two sections
GenerateCode(img, frs, mode, g, svs, anims) ==
    IF EmitsNothing(img, frs) THEN <<>>
    ELSE <<[geometry |-> EmitGeometry(mode, g, svs), animations |-> EmitAnimations(anims)]>>

\* ---- playback of one authored animation ----------------------------------

\* frame lists of length n with durations from Durations
FrameLists(n) ==
    {fs \in [1..n -> [frameIndex : 0..(MaxFrames - 1), duration : Durations]] :
        \A i \in 1..n : fs[i].frameIndex = i - 1}

\* an image is loaded, one animation was authored and selected, nothing plays
InitPlay ==
    /\ image = TRUE
    /\ \E n \in 0..MaxFrames : \E fs \in FrameLists(n) : \E s \in LoopStrategies :
           animations = <<[name |-> "Animation1", frames |-> fs, loopStrategy |-> s]>>
    /\ selectedAnimation = 0
    /\ isPlaying = FALSE
    /\ currentFrameIdx = 0
    /\ defaultDuration = 150
    /\ frameIdx = 0
    /\ lastTime = 0
    /\ direction = InitialDirection
    /\ anim = NoAnim
    /\ rafPending = FALSE
    /\ pendingSet = FALSE
    /\ now = 0
    /\ error = FALSE
    /\ visited = <<0>>
    /\ startTime = 0
    /\ parseMode = "grid"
    /\ gridConfig = [DefaultGridConfig EXCEPT !.columns = MaxFrames]
    /\ sourceViews = <<>>
    /\ selectedSourceView = NULL
    /\ frames = ParseGridFrames(TRUE, gridConfig, <<>>)
    /\ rafCount = 0
    /\ timerRef = "null"
    /\ effectCleanup = FALSE
    /\ stepEntered = 0

NextPlay ==
    \/ TogglePlay
    \/ Restart
    \/ \E dt \in 1..MaxDt : TimePasses(dt)
    \/ \E dt \in 0..MaxDt : Tick(dt)
    \/ Rerender

SpecPlay == InitPlay /\ [][NextPlay]_vars

TypeOK ==
    /\ image \in BOOLEAN
    /\ isPlaying \in BOOLEAN
    /\ rafPending \in BOOLEAN
    /\ pendingSet \in BOOLEAN
    /\ error \in BOOLEAN
    /\ direction \in {1, -1}
    /\ now \in 0..MaxTime
    /\ lastTime \in 0..MaxTime
    /\ Len(visited) \in 1..(MaxVisited + 1)

\* ---- the grid resolver on its own ------------------------------------------------

GridRows == {-1, 1, 2}
GridColumns == {-1, 1, 2, 3}
GridSizes == {-1, 16, 32}
GridOffsets == {0, 1}
GridMargins == {-1, 0, 1}

\* what can be typed into a field of the Grid Config panel (0 stands for an
\* empty field as well)
GridInputs(field) ==
    CASE field = "rows" -> GridRows \cup {0}
      [] field = "columns" -> GridColumns \cup {0}
      [] field \in {"spriteWidth", "spriteHeight"} -> GridSizes \cup {0}
      [] field \in {"originOffset.x", "originOffset.y"} -> GridOffsets
      [] field \in {"margin.x", "margin.y"} -> GridMargins

\* the state of the application at rest: nothing plays, no animation exists
Idle ==
    /\ animations = <<>>
    /\ selectedAnimation = NULL
    /\ isPlaying = FALSE
    /\ currentFrameIdx = 0
    /\ frameIdx = 0
    /\ lastTime = 0
    /\ direction = InitialDirection
    /\ anim = NoAnim
    /\ rafPending = FALSE
    /\ pendingSet = FALSE
    /\ now = 0
    /\ error = FALSE
    /\ visited = <<0>>
    /\ startTime = 0
    /\ rafCount = 0
    /\ timerRef = "null"
    /\ effectCleanup = FALSE
    /\ stepEntered = 0

\* an image is loaded, grid mode was chosen and a grid configuration typed in
InitGrid ==
    /\ Idle
    /\ defaultDuration = 150
    /\ image = TRUE
    /\ parseMode = "grid"
    /\ gridConfig \in [spriteWidth : GridSizes \cup {0}, spriteHeight : GridSizes \cup {0},
                       rows : GridRows, columns : GridColumns,
                       originOffset : [x : GridOffsets, y : GridOffsets],
                       margin : [x : GridMargins, y : GridMargins]]
    /\ sourceViews = <<>>
    /\ selectedSourceView = NULL
    /\ frames = ParseGridFrames(TRUE, gridConfig, <<>>)

NextGrid ==
    \E field \in GridFields : \E n \in GridInputs(field) : SetGridConfig(field, n)

SpecGrid == InitGrid /\ [][NextGrid]_vars

\* ---- the source-view resolver on its own ------------------------------------------

ViewPositions == {0, 3}
ViewSizes == {0, 8, 32}

ViewInputs(field) == IF field \in {"x", "y"} THEN ViewPositions ELSE ViewSizes

\* an image is loaded, source-view mode was chosen and some views were entered
InitViews ==
    /\ Idle
    /\ defaultDuration = 150
    /\ image = TRUE
    /\ parseMode = "sourceview"
    /\ gridConfig = DefaultGridConfig
    /\ \E n \in 0..MaxViews :
          sourceViews \in [1..n -> [x : ViewPositions, y : ViewPositions,
                                    width : ViewSizes, height : ViewSizes]]
    /\ selectedSourceView = NULL
    /\ frames = ParseSourceViewFrames(sourceViews)

NextViews ==
    \/ Len(sourceViews) < MaxViews /\ AddSourceView
    \/ \E i \in 0..(MaxViews - 1) : \E field \in ViewFields : \E n \in ViewInputs(field) :
          UpdateSourceView(i, field, n)
    \/ \E i \in 0..(MaxViews - 1) : DeleteSourceView(i)

SpecViews == InitViews /\ [][NextViews]_vars

\* ---- the application from its initial state: geometry ------------------------------

\* the state after construction
Init ==
    /\ Idle
    /\ defaultDuration = 150
    /\ image = FALSE
    /\ parseMode = NoParseMode
    /\ gridConfig = DefaultGridConfig
    /\ sourceViews = <<>>
    /\ selectedSourceView = NULL
    /\ frames = <<>>

NextGeom ==
    \/ LoadImage
    \/ \E m \in {"grid", "sourceview"} : SetParseMode(m)
    \/ \E field \in {"spriteWidth", "rows", "columns"} : \E n \in {0, -1, 2} :
          SetGridConfig(field, n)
    \/ Len(sourceViews) < MaxViews /\ AddSourceView
    \/ \E i \in 0..(MaxViews - 1) : \E field \in {"x", "width"} : \E n \in {0, 3} :
          UpdateSourceView(i, field, n)
    \/ \E i \in 0..(MaxViews - 1) : DeleteSourceView(i)
    \/ AddAnimation
    \/ \E i \in 0..(MaxAnimations - 1) : SelectAnimation(i)
    \/ TogglePlay

SpecGeom == Init /\ [][NextGeom]_vars

\* ---- authoring and playing animations over one resolved frame --------------------------

\* the durations typed in while authoring here
EditDurations == {1}

\* the strategies chosen while authoring here (Loop is the one addAnimation gives)
EditStrategies == {"Loop", "End", "PingPong"}

\* an image is loaded and the default 1 x 1 grid resolved; no animation yet
InitEdit ==
    /\ Idle
    /\ defaultDuration \in EditDurations
    /\ image = TRUE
    /\ parseMode = "grid"
    /\ gridConfig = DefaultGridConfig
    /\ sourceViews = <<>>
    /\ selectedSourceView = NULL
    /\ frames = ParseGridFrames(TRUE, gridConfig, <<>>)

NextEdit ==
    \/ AddAnimation
    \/ \E i \in 0..(MaxAnimations - 1) : SelectAnimation(i)
    \/ \E i \in 0..(MaxAnimations - 1) : DeleteAnimation(i)
    \/ \E i \in 0..(MaxAnimations - 1) : \E st \in EditStrategies : SetLoopStrategy(i, st)
    \/ \E k \in 1..Len(frames) : AddFrameToAnimation(frames[k].index)
    \/ \E pos \in 0..(MaxEditFrames - 1) : RemoveFrameFromAnimation(pos)
    \/ \E pos \in 0..(MaxEditFrames - 1) : \E n \in EditDurations : UpdateFrameDuration(pos, n)
    \/ \E n \in EditDurations : SetDefaultDuration(n)
    \/ TogglePlay
    \/ Restart
    \/ \E dt \in 1..MaxDt : TimePasses(dt)
    \/ \E dt \in 0..MaxDt : Tick(dt)
    \/ Rerender

SpecEdit == InitEdit /\ [][NextEdit]_vars

\* ---- the emitter over both resolvers ---------------------------------------------

\* an image is loaded and either a grid configuration or a source view list was entered
InitEmit == InitGrid \/ InitViews

NextEmit == NextGrid \/ NextViews

SpecEmit == InitEmit /\ [][NextEmit]_vars

\* ---- authoring without playback --------------------------------------------------

\* the name typed into a card
AuthorNames == {"Walk"}

\* the strategies chosen while authoring here
AuthorStrategies == {"Loop", "PingPong"}

\* what is typed into a duration input
AuthorDurations == {12}

\* an image is loaded and parsed as a grid of two frames, no animation exists
InitAuthor ==
    /\ Idle
    /\ defaultDuration = 1
    /\ image = TRUE
    /\ parseMode = "grid"
    /\ gridConfig = [DefaultGridConfig EXCEPT !.columns = 2]
    /\ sourceViews = <<>>
    /\ selectedSourceView = NULL
    /\ frames = ParseGridFrames(TRUE, gridConfig, <<>>)

NextAuthor ==
    \/ AddAnimation
    \/ \E i \in 0..(MaxAnimations - 1) : SelectAnimation(i)
    \/ \E i \in 0..(MaxAnimations - 1) : DeleteAnimation(i)
    \/ \E i \in 0..(MaxAnimations - 1) : \E name \in AuthorNames : RenameAnimation(i, name)
    \/ \E i \in 0..(MaxAnimations - 1) : \E st \in AuthorStrategies : SetLoopStrategy(i, st)
    \/ \E k \in 1..Len(frames) :
          /\ selectedAnimation # NULL
          /\ Len(At(animations, selectedAnimation).frames) < MaxAuthorFrames
          /\ AddFrameToAnimation(frames[k].index)
    \/ \E pos \in 0..(MaxAuthorFrames - 1) : RemoveFrameFromAnimation(pos)
    \/ \E pos \in 0..(MaxAuthorFrames - 1) : \E n \in AuthorDurations :
          UpdateFrameDuration(pos, n)

SpecAuthor == InitAuthor /\ [][NextAuthor]_vars

\* ---- playback over a frame list that changes ------------------------------------

\* frame lists of length n over the first two frame indices, each shown for one time unit
StaleFrameLists(n) ==
    {fs \in [1..n -> [frameIndex : 0..1, duration : {1}]] :
        \A i \in 1..n : fs[i].frameIndex = i - 1}

\* an image is loaded and parsed as a grid of two frames, one animation was
\* authored over them and selected, nothing plays
InitStale ==
    /\ image = TRUE
    /\ \E n \in 1..2 : \E fs \in StaleFrameLists(n) : \E s \in LoopStrategies :
           animations = <<[name |-> "Animation1", frames |-> fs, loopStrategy |-> s]>>
    /\ selectedAnimation = 0
    /\ isPlaying = FALSE
    /\ currentFrameIdx = 0
    /\ defaultDuration = 150
    /\ frameIdx = 0
    /\ lastTime = 0
    /\ direction = InitialDirection
    /\ anim = NoAnim
    /\ rafPending = FALSE
    /\ pendingSet = FALSE
    /\ now = 0
    /\ error = FALSE
    /\ visited = <<0>>
    /\ startTime = 0
    /\ parseMode = "grid"
    /\ gridConfig = [DefaultGridConfig EXCEPT !.columns = 2]
    /\ sourceViews = <<>>
    /\ selectedSourceView = NULL
    /\ frames = ParseGridFrames(TRUE, gridConfig, <<>>)
    /\ rafCount = 0
    /\ timerRef = "null"
    /\ effectCleanup = FALSE
    /\ stepEntered = 0

NextStale ==
    \/ TogglePlay
    \/ Restart
    \/ \E dt \in 1..MaxDt : TimePasses(dt)
    \/ \E dt \in 0..MaxDt : Tick(dt)
    \/ Rerender
    \/ LoadImage
    \/ \E m \in {"grid", "sourceview"} : SetParseMode(m)
    \/ \E n \in {1, 2} : SetGridConfig("columns", n)
    \/ Len(sourceViews) < MaxViews /\ AddSourceView
    \/ \E index \in 0..(MaxViews - 1) : UpdateSourceView(index, "width", 8)
    \/ \E index \in 0..(MaxViews - 1) : DeleteSourceView(index)

SpecStale == InitStale /\ [][NextStale]_vars

\* ---- observations used by the properties -----------------------------------

SelAnim == IF selectedAnimation # NULL /\ InRange(animations, selectedAnimation)
           THEN At(animations, selectedAnimation)
           ELSE NoAnim

NumFrames == Len(SelAnim.frames)

Strategy == SelAnim.loopStrategy

\* the run started at step 0 and no user event has happened since
FromZero == visited[1] = 0

AnyTick == \E dt \in 0..MaxDt : Tick(dt)

\* a call of animate committed a step
TickAdvance == AnyTick /\ Len(visited') = Len(visited) + 1

Min(a, b) == IF a <= b THEN a ELSE b

\* the k-th step (k = 0, 1, ...) of a ping-pong over n >= 2 indices
PingPongSeq(n, k) ==
    LET m == k % (2 * (n - 1)) IN
    IF m < n THEN m ELSE 2 * (n - 1) - m

\* C1: under PingPong with exactly one frame the step index is 0 after every
\* advance and is never negative.
C1_PingPongOneFrameStaysZero ==
    (Strategy = "PingPong" /\ NumFrames = 1) =>
        /\ currentFrameIdx = 0
        /\ \A i \in 1..Len(visited) : visited[i] = 0

\* C2: under PingPong with N >= 3 frames, uninterrupted playback from step 0
\* visits 0, 1, ..., N-1, N-2, ..., 1, 0, 1, ...
C2_PingPongFullSweep ==
    (Strategy = "PingPong" /\ NumFrames >= 3 /\ FromZero) =>
        \A i \in 1..Len(visited) : visited[i] = PingPongSeq(NumFrames, i - 1)

\* C3: under PingPong with exactly two frames, uninterrupted playback from step 0
\* visits 0, 1, 0, 1, ...: every advance moves to the other index, and no tick
\* clears the playing signal.
C3_PingPongTwoFramesAlternate ==
    /\ []((Strategy = "PingPong" /\ NumFrames = 2 /\ FromZero) =>
            \A i \in 1..Len(visited) : visited[i] = (i - 1) % 2)
    /\ [][(Strategy = "PingPong" /\ NumFrames = 2 /\ AnyTick) =>
            /\ isPlaying' = isPlaying
            /\ rafPending'
            /\ (TickAdvance => currentFrameIdx' = 1 - currentFrameIdx)]_vars

C3_Witness ==
    /\ Strategy = "PingPong"
    /\ NumFrames = 2
    /\ isPlaying
    /\ visited = <<0, 1, 0, 1, 0>>

\* C4: under Loop with N >= 1 frames every advance sets the step index to
\* (stepIndex + 1) mod N, playback from step 0 visits 0, 1, ..., N-1, 0, 1, ...,
\* and no tick clears the playing signal.
C4_LoopWraps ==
    /\ []((Strategy = "Loop" /\ NumFrames >= 1 /\ FromZero) =>
            \A i \in 1..Len(visited) : visited[i] = (i - 1) % NumFrames)
    /\ [][(Strategy = "Loop" /\ NumFrames >= 1 /\ AnyTick) =>
            /\ isPlaying' = isPlaying
            /\ rafPending'
            /\ (TickAdvance => currentFrameIdx' = (currentFrameIdx + 1) % NumFrames)]_vars

C4_Witness ==
    /\ Strategy = "Loop"
    /\ NumFrames = 4
    /\ isPlaying
    /\ visited = <<0, 1, 2, 3, 0, 1>>

\* C5: under Freeze with N >= 1 frames, playback from step 0 visits 0, 1, ..., N-1
\* and then stays at N-1 on every later advance, and the playing signal stays
\* true: no tick clears it or stops rescheduling.
C5_FreezeHoldsLast ==
    /\ []((Strategy = "Freeze" /\ NumFrames >= 1 /\ FromZero) =>
            \A i \in 1..Len(visited) : visited[i] = Min(i - 1, NumFrames - 1))
    /\ [][(Strategy = "Freeze" /\ NumFrames >= 1 /\ AnyTick) =>
            /\ isPlaying' = isPlaying
            /\ rafPending']_vars

C5_Witness ==
    /\ Strategy = "Freeze"
    /\ NumFrames = 3
    /\ isPlaying
    /\ rafPending
    /\ visited = <<0, 1, 2, 2, 2>>

\* C6: under End with N >= 1 frames, playback from step 0 visits 0, 1, ..., N-1;
\* the advance out of the last frame clears the playing signal, leaves the step
\* index at N-1 and schedules no further tick, and while playback is stopped
\* passing time changes nothing.  With N = 1 the first boundary stops playback.
C6_EndStopsAtLast ==
    /\ []((Strategy = "End" /\ NumFrames >= 1 /\ FromZero) =>
            /\ Len(visited) <= NumFrames
            /\ \A i \in 1..Len(visited) : visited[i] = i - 1
            /\ currentFrameIdx = visited[Len(visited)])
    /\ []((Strategy = "End" /\ ~isPlaying) => ~rafPending)
    /\ [][(/\ Strategy = "End"
           /\ NumFrames >= 1
           /\ AnyTick
           /\ currentFrameIdx = NumFrames - 1
           /\ now' - lastTime >= At(SelAnim.frames, currentFrameIdx).duration) =>
            /\ ~isPlaying'
            /\ ~rafPending'
            /\ currentFrameIdx' = currentFrameIdx]_vars
    /\ [][(Strategy = "End" /\ ~isPlaying /\ now' > now) =>
            /\ ~isPlaying'
            /\ ~rafPending'
            /\ currentFrameIdx' = currentFrameIdx]_vars

C6_Witness ==
    /\ Strategy = "End"
    /\ NumFrames = 3
    /\ visited = <<0, 1, 2>>
    /\ ~isPlaying
    /\ ~rafPending
    /\ now > lastTime

\* what the run since the last user event would have committed had all of its
\* time been delivered as one tick: animate called once, at the present time,
\* on the closure the preview effect built at that event.  While a callback is
\* scheduled and now > startTime, the latest tick of the run came at time now.
CoarseVisited ==
    LET r == Animate(visited[1], startTime, InitialDirection, SelAnim, now) IN
    IF r.kind = "advance" THEN <<visited[1], r.frameIdx>> ELSE <<visited[1]>>

\* C7 (as stated): a run that gets its elapsed time as one large tick and a run
\* that gets it as many small ticks visit the same step indices and end at the
\* same step.  Taken here without PingPong, whose sweep is the matter of C1 and C2,
\* and with positive durations only.
C7_TickGranularityIndependent ==
    (/\ rafPending
     /\ now > startTime
     /\ Strategy # "PingPong"
     /\ \A i \in 1..NumFrames : SelAnim.frames[i].duration > 0) =>
        /\ visited = CoarseVisited
        /\ currentFrameIdx = CoarseVisited[Len(CoarseVisited)]

\* C7 (amended): a tick commits at most one transition, whatever time it
\* covers; the run that gets the elapsed time as one large tick commits exactly
\* the first transition of the run that gets it as several ticks.
C7_OneTransitionPerTick ==
    /\ []((rafPending /\ now > startTime) =>
            CoarseVisited = SubSeq(visited, 1, Min(2, Len(visited))))
    /\ [][AnyTick => Len(visited') <= Len(visited) + 1]_vars

\* three small ticks have committed three transitions where one tick of the
\* same total time commits one
C7_Witness ==
    /\ rafPending
    /\ Strategy = "Loop"
    /\ NumFrames = 4
    /\ visited = <<0, 1, 2, 3>>
    /\ CoarseVisited = <<0, 1>>
    /\ \A i \in 1..NumFrames : SelAnim.frames[i].duration = 1

\* C8 (as stated): an advance consumes exactly the duration of the step it
\* leaves; when the tick arrives at elapsed = duration + r with r > 0, r stays
\* in the accumulator.
C8_RemainderKept ==
    [][(/\ TickAdvance
        /\ rafPending'
        /\ At(anim.frames, frameIdx).duration > 0
        /\ now' - lastTime > At(anim.frames, frameIdx).duration) =>
          now' - lastTime' = (now' - lastTime) - At(anim.frames, frameIdx).duration]_vars

\* C8 (amended): every advance restarts the accumulator at zero (lastTime is set
\* to the time of the tick): the time by which elapsed exceeded the duration is
\* dropped and does not count toward the next step.
C8_AccumulatorRestarts ==
    [][(TickAdvance /\ rafPending') => lastTime' = now']_vars

\* the first step (duration 1) was left at elapsed = 2 and the accumulator is 0
C8_Witness ==
    /\ rafPending
    /\ visited = <<0, 1>>
    /\ SelAnim.frames[1].duration = 1
    /\ now - startTime = 2
    /\ lastTime = now

\* C9: with a selected animation of zero frames and playback requested, no state
\* transition happens under any strategy: the step index stays 0, no tick is
\* scheduled or runs, no frame is read and no error is raised.
C9_EmptyAnimationIdle ==
    /\ []((selectedAnimation # NULL /\ NumFrames = 0) =>
            /\ ~rafPending
            /\ ~pendingSet
            /\ currentFrameIdx = 0
            /\ visited = <<0>>
            /\ ~error)
    /\ [][(selectedAnimation # NULL /\ NumFrames = 0) =>
            /\ ~AnyTick
            /\ currentFrameIdx' = currentFrameIdx
            /\ ~error']_vars

C9_Witness ==
    /\ selectedAnimation # NULL
    /\ NumFrames = 0
    /\ Strategy = "PingPong"
    /\ isPlaying
    /\ now > startTime

\* C10: a step whose duration is zero or negative is held for a positive
\* minimum time: no advance is committed from it when less than that floor, in
\* particular no time at all, has elapsed since the last committed step.
C10_NonPositiveDurationFloor ==
    [][(TickAdvance /\ At(anim.frames, frameIdx).duration <= 0) => now' - lastTime > 0]_vars

\* ---- C11 .. C20 ---------------------------------------------------------------------

AnySelect == \E i \in 0..(MaxAnimations - 1) : SelectAnimation(i)

\* C11: selecting an animation, the selected one or another, from any playback
\* state leaves the step index at 0 and the direction at +1 (and playback
\* paused, so that the next Play starts from step 0 going forward).
C11_SelectResets ==
    /\ [][AnySelect =>
            /\ currentFrameIdx' = 0
            /\ direction' = 1
            /\ ~isPlaying'
            /\ ~rafPending']_vars
    /\ [][(TogglePlay /\ rafPending') =>
            /\ frameIdx' = currentFrameIdx'
            /\ direction' = 1]_vars

\* animation 0 was selected again after animation 1 had been created, at a
\* later time than the start
C11_Witness ==
    /\ Len(animations) = 2
    /\ selectedAnimation = 0
    /\ Len(At(animations, 0).frames) = 2
    /\ currentFrameIdx = 0
    /\ ~isPlaying
    /\ startTime > 0
    /\ startTime = now

SelFramesLen == Len(SelAnim.frames)

\* C12: whenever the frame count of the selected animation changes (append or
\* remove, playing or paused), the playback state is reset to step 0 and
\* direction +1 before any further advance: a callback that stays scheduled
\* starts again from step 0.
C12_FrameCountChangeResets ==
    [][(/\ selectedAnimation # NULL
        /\ selectedAnimation' = selectedAnimation
        /\ SelFramesLen' # SelFramesLen) =>
          /\ currentFrameIdx' = 0
          /\ direction' = 1
          /\ ~pendingSet'
          /\ (rafPending' => frameIdx' = 0 /\ lastTime' = now')]_vars

\* a frame was appended while the animation was playing
C12_Witness ==
    /\ isPlaying
    /\ rafPending
    /\ SelFramesLen = 2
    /\ currentFrameIdx = 0
    /\ frameIdx = 0
    /\ startTime = now
    /\ now > 0

\* C13: at most one tick callback is outstanding at any time; while playback is
\* paused or nothing is selected none is; the callback that is outstanding
\* belongs to the animation selected now, so every advance is computed from the
\* frames and strategy of the animation selected when it is applied.
C13_NoStaleTick ==
    /\ [](rafCount \in {0, 1})
    /\ [](rafPending <=> rafCount = 1)
    /\ [](rafCount = 1 <=> timerRef = "live")
    /\ []((~isPlaying \/ selectedAnimation = NULL) => rafCount = 0)
    /\ [](rafPending => (selectedAnimation # NULL /\ anim = SelAnim))
    /\ [][TickAdvance =>
            /\ anim = SelAnim
            /\ isPlaying
            /\ visited'[Len(visited')] =
                 Animate(currentFrameIdx, lastTime, InitialDirection, SelAnim, now').frameIdx]_vars

\* the first animation plays again after the second one had been created, and
\* has advanced
C13_Witness ==
    /\ Len(animations) = 2
    /\ selectedAnimation = 0
    /\ isPlaying
    /\ rafCount = 1
    /\ visited = <<0, 1>>

\* C14: under Loop, Freeze and PingPong, for any frame count >= 1 (and positive
\* durations), no tick clears the playing signal or stops rescheduling.
C14_OnlyEndStops ==
    [][(/\ Strategy \in {"Loop", "Freeze", "PingPong"}
        /\ NumFrames >= 1
        /\ \A i \in 1..NumFrames : SelAnim.frames[i].duration > 0
        /\ AnyTick) =>
          /\ isPlaying' = isPlaying
          /\ rafPending']_vars

\* C15: a step is never left early: when an advance is committed, at least the
\* duration of the step being left has passed since that step was committed (or
\* since playback started), for every strategy and every positive duration.
C15_NoEarlyAdvance ==
    [][(/\ TickAdvance
        /\ InRange(SelAnim.frames, currentFrameIdx)
        /\ At(SelAnim.frames, currentFrameIdx).duration > 0) =>
          now' - stepEntered >= At(SelAnim.frames, currentFrameIdx).duration]_vars

C15_Witness ==
    /\ Strategy = "PingPong"
    /\ NumFrames = 2
    /\ \A i \in 1..NumFrames : SelAnim.frames[i].duration = 2
    /\ visited = <<0, 1, 0>>
    /\ stepEntered = 4

\* C16: in grid mode with an image loaded and rows, columns >= 1 the resolver
\* gives exactly rows * columns frames in row-major order; the frame at position
\* row * columns + col has that index, x = originOffset.x + col * (spriteWidth +
\* margin.x), y = originOffset.y + row * (spriteHeight + margin.y) and the sprite's
\* width and height, whatever the image size.  2 x 3 sprites of 16 x 16 with no
\* offset and margin give 6 frames, frame 4 at (16, 16).
C16_GridRowMajor ==
    (image /\ parseMode = "grid" /\ gridConfig.rows >= 1 /\ gridConfig.columns >= 1) =>
        /\ Len(frames) = gridConfig.rows * gridConfig.columns
        /\ \A row \in 0..(gridConfig.rows - 1) : \A col \in 0..(gridConfig.columns - 1) :
              At(frames, row * gridConfig.columns + col) =
                  [index  |-> row * gridConfig.columns + col,
                   x      |-> gridConfig.originOffset.x
                                + col * (gridConfig.spriteWidth + gridConfig.margin.x),
                   y      |-> gridConfig.originOffset.y
                                + row * (gridConfig.spriteHeight + gridConfig.margin.y),
                   width  |-> gridConfig.spriteWidth,
                   height |-> gridConfig.spriteHeight]

C16_Witness ==
    /\ image
    /\ parseMode = "grid"
    /\ gridConfig = [spriteWidth |-> 16, spriteHeight |-> 16, rows |-> 2, columns |-> 3,
                     originOffset |-> [x |-> 0, y |-> 0], margin |-> [x |-> 0, y |-> 0]]
    /\ Len(frames) = 6
    /\ At(frames, 4).index = 4
    /\ At(frames, 4).x = 16
    /\ At(frames, 4).y = 16

\* C17: in source-view mode the frame list is as long as SourceView[] and frame
\* i has index i and the x, y, width, height of sourceViews[i]; the empty list
\* gives no frames.
C17_SourceViewsOneToOne ==
    parseMode = "sourceview" =>
        /\ Len(frames) = Len(sourceViews)
        /\ \A i \in 0..(Len(sourceViews) - 1) :
              /\ At(frames, i).index = i
              /\ At(frames, i).x = At(sourceViews, i).x
              /\ At(frames, i).y = At(sourceViews, i).y
              /\ At(frames, i).width = At(sourceViews, i).width
              /\ At(frames, i).height = At(sourceViews, i).height

C17_Witness ==
    /\ parseMode = "sourceview"
    /\ Len(sourceViews) = 2
    /\ selectedSourceView = 1
    /\ At(sourceViews, 0) = [x |-> 3, y |-> 0, width |-> 8, height |-> 32]
    /\ At(sourceViews, 1) = [x |-> 0, y |-> 0, width |-> 32, height |-> 32]
    /\ Len(frames) = 2

InvalidGridConfig(g) ==
    g.rows <= 0 \/ g.columns <= 0 \/ g.spriteWidth <= 0 \/ g.spriteHeight <= 0

\* C18 (as stated): for an invalid GridConfig (rows, columns, spriteWidth or
\* spriteHeight <= 0) the grid resolver gives an empty Frame[].
C18_InvalidGridIsEmpty ==
    (image /\ parseMode = "grid" /\ InvalidGridConfig(gridConfig)) => frames = <<>>

\* C18 (amended): with rows <= 0 or columns <= 0 the grid resolver gives an empty
\* Frame[]; with rows, columns >= 1 and spriteWidth or spriteHeight <= 0 it still
\* gives rows * columns frames, which carry that width and height.  No error
\* is raised in either case.
C18_OnlyCountsEmptyTheGrid ==
    (image /\ parseMode = "grid") =>
        /\ (gridConfig.rows <= 0 \/ gridConfig.columns <= 0) => frames = <<>>
        /\ (gridConfig.rows >= 1 /\ gridConfig.columns >= 1) =>
              /\ Len(frames) = gridConfig.rows * gridConfig.columns
              /\ \A i \in 1..Len(frames) :
                    /\ frames[i].width = gridConfig.spriteWidth
                    /\ frames[i].height = gridConfig.spriteHeight
        /\ ~error

C18_Witness ==
    /\ image
    /\ parseMode = "grid"
    /\ gridConfig.rows = -1
    /\ gridConfig.columns = 3
    /\ gridConfig.spriteWidth = 16
    /\ frames = <<>>

\* C19: in every reachable state without an image Frame[] is empty (no parse
\* mode can have been chosen), the emitter gives no output, and no error was raised.
C19_NoImageNoFrames ==
    ~image =>
        /\ frames = <<>>
        /\ parseMode = NoParseMode
        /\ EmitsNothing(image, frames)
        /\ ~error

C19_Witness ==
    /\ ~image
    /\ Len(animations) = 2
    /\ selectedAnimation = 0
    /\ isPlaying
    /\ frames = <<>>

\* C20: in every reachable state Frame[] is dense and zero-based: the frame at
\* position i has index i.
C20_FramesDense ==
    \A i \in 0..(Len(frames) - 1) : At(frames, i).index = i

\* a 2 x 2 grid was resolved after a source view had been entered
C20_Witness ==
    /\ parseMode = "grid"
    /\ Len(frames) = 4
    /\ Len(sourceViews) = 1


\* ---- C21 .. C30 ---------------------------------------------------------------------

\* the grid formula as a table: position row * columns + col
GridTable(g) ==
    LET r == IF g.rows > 0 THEN g.rows ELSE 0
        c == IF g.columns > 0 THEN g.columns ELSE 0
    IN [k \in 1..(r * c) |->
           [index  |-> k - 1,
            x      |-> g.originOffset.x + ((k - 1) % c) * (g.spriteWidth + g.margin.x),
            y      |-> g.originOffset.y + ((k - 1) \div c) * (g.spriteHeight + g.margin.y),
            width  |-> g.spriteWidth,
            height |-> g.spriteHeight]]

\* the one-to-one copy of a source view list
ViewTable(svs) ==
    [k \in 1..Len(svs) |->
        [index |-> k - 1, x |-> svs[k].x, y |-> svs[k].y,
         width |-> svs[k].width, height |-> svs[k].height]]

\* C21: after every change of the parse mode, the grid configuration, the
\* source-view list or the image, Frame[] is the full resolution of the current
\* configuration: the grid formula in grid mode, the copy of SourceView[] in
\* source-view mode, empty when no parse mode is chosen.
C21_FramesAreCurrentResolution ==
    frames = IF parseMode = "grid" /\ image THEN GridTable(gridConfig)
             ELSE IF parseMode = "sourceview" THEN ViewTable(sourceViews)
             ELSE <<>>

\* a second image was loaded after a grid of two columns had been resolved and
\* two source views had been entered: the frame list is empty again
C21_Witness ==
    /\ image
    /\ parseMode = NoParseMode
    /\ frames = <<>>
    /\ gridConfig.columns = 2
    /\ selectedSourceView = 1


\* the current step exists and its frameIndex is absent from Frame[]
CurrentFrameAbsent ==
    /\ selectedAnimation # NULL
    /\ InRange(SelAnim.frames, currentFrameIdx)
    /\ ~InRange(frames, At(SelAnim.frames, currentFrameIdx).frameIndex)

\* the step and the playing signal after a tick at time t of the strategy's
\* step function, whatever Frame[] holds
ExpectedAfterTick(t) ==
    LET due == t - lastTime >= At(SelAnim.frames, currentFrameIdx).duration
        last == currentFrameIdx = NumFrames - 1
    IN
    IF ~due THEN [step |-> currentFrameIdx, playing |-> TRUE]
    ELSE CASE Strategy = "Loop" ->
                [step |-> (currentFrameIdx + 1) % NumFrames, playing |-> TRUE]
           [] Strategy = "Freeze" ->
                [step |-> IF last THEN currentFrameIdx ELSE currentFrameIdx + 1,
                 playing |-> TRUE]
           [] Strategy = "End" ->
                [step |-> IF last THEN currentFrameIdx ELSE currentFrameIdx + 1,
                 playing |-> ~last]
           [] Strategy = "PingPong" ->
                [step |-> PingPongStep(currentFrameIdx, direction, NumFrames).frameIdx,
                 playing |-> TRUE]

\* C22: when the current step of a playing animation holds a frameIndex that is
\* absent from Frame[], a tick changes the step index and the playing signal
\* exactly as the strategy's step function says, raises no error and, unless End
\* stops the playback, leaves a tick scheduled: only the drawing is skipped.
C22_MissingFrameOnlySkipsDrawing ==
    [][(AnyTick /\ CurrentFrameAbsent) =>
          /\ currentFrameIdx' = ExpectedAfterTick(now').step
          /\ isPlaying' = ExpectedAfterTick(now').playing
          /\ rafPending' = isPlaying'
          /\ direction' = InitialDirection
          /\ error' = error]_vars

\* a Loop over two steps went 0, 1, 0 although the image had been loaded again
\* and Frame[] is empty
C22_Witness ==
    /\ isPlaying
    /\ Strategy = "Loop"
    /\ NumFrames = 2
    /\ frames = <<>>
    /\ visited = <<0, 1, 0>>
    /\ ~error

\* C23: deleting or editing a source view, switching the parse mode or loading
\* an image leaves Animation[] unchanged: every AnimationFrame keeps its
\* frameIndex and duration, also when that index is no longer in Frame[].
C23_GeometryLeavesAnimations ==
    [][(geomVars' # geomVars \/ LoadImage) => animations' = animations]_vars

\* the only source view was deleted while the animation refers to frames 0 and 1
C23_Witness ==
    /\ parseMode = "sourceview"
    /\ selectedSourceView = 0
    /\ sourceViews = <<>>
    /\ frames = <<>>
    /\ Len(animations) = 1
    /\ Len(animations[1].frames) = 2
    /\ animations[1].frames[2].frameIndex = 1


\* C24: after any sequence of create and delete operations the selected-animation
\* reference is null or a valid index into Animation[]; creating selects the
\* new record; deleting the selected animation clears the reference; deleting
\* another one leaves it on the same record, decremented when the deleted
\* index was lower.
C24_SelectionStaysValid ==
    /\ [](selectedAnimation = NULL \/ InRange(animations, selectedAnimation))
    /\ [][AddAnimation => selectedAnimation' = Len(animations') - 1]_vars
    /\ [][\A index \in 0..(MaxAnimations - 1) : DeleteAnimation(index) =>
            IF selectedAnimation = NULL \/ selectedAnimation = index
            THEN selectedAnimation' = NULL
            ELSE /\ selectedAnimation' # NULL
                 /\ InRange(animations', selectedAnimation')
                 /\ At(animations', selectedAnimation') = At(animations, selectedAnimation)
                 /\ selectedAnimation' = IF index < selectedAnimation
                                         THEN selectedAnimation - 1
                                         ELSE selectedAnimation]_vars

\* the first of two animations was deleted while the second, edited, one was selected
C24_Witness ==
    /\ Len(animations) = 1
    /\ selectedAnimation = 0
    /\ animations[1].name = "Animation2"
    /\ Len(animations[1].frames) = 2

\* animation i of the next state differs from now in the field given only
OnlyAnimationChanged(i) ==
    /\ Len(animations') = Len(animations)
    /\ \A j \in 0..(Len(animations) - 1) : j # i => At(animations', j) = At(animations, j)

SelFrames == At(animations, selectedAnimation).frames

SelFramesNext == At(animations', selectedAnimation).frames

\* C25: a rename, a change of loop strategy, an append of a frame, a removal of
\* the frame at a position and an update of a frame's duration change the
\* targeted field of the targeted animation only: its other fields, the order,
\* frameIndex and duration of every other AnimationFrame and every other
\* animation stay as they were.
C25_MutationsAreLocal ==
    /\ [][\A i \in 0..(MaxAnimations - 1) : \A name \in AuthorNames :
            RenameAnimation(i, name) =>
              /\ OnlyAnimationChanged(i)
              /\ At(animations', i).name = name
              /\ At(animations', i).frames = At(animations, i).frames
              /\ At(animations', i).loopStrategy = At(animations, i).loopStrategy]_vars
    /\ [][\A i \in 0..(MaxAnimations - 1) : \A st \in LoopStrategies :
            SetLoopStrategy(i, st) =>
              /\ OnlyAnimationChanged(i)
              /\ At(animations', i).loopStrategy = st
              /\ At(animations', i).frames = At(animations, i).frames
              /\ At(animations', i).name = At(animations, i).name]_vars
    /\ [][\A fi \in 0..(MaxFrames - 1) : AddFrameToAnimation(fi) =>
              /\ OnlyAnimationChanged(selectedAnimation)
              /\ selectedAnimation' = selectedAnimation
              /\ SelAnim'.name = SelAnim.name
              /\ SelAnim'.loopStrategy = SelAnim.loopStrategy
              /\ Len(SelFramesNext) = Len(SelFrames) + 1
              /\ \A k \in 1..Len(SelFrames) : SelFramesNext[k] = SelFrames[k]
              /\ SelFramesNext[Len(SelFramesNext)] =
                     [frameIndex |-> fi, duration |-> defaultDuration]]_vars
    /\ [][\A pos \in 0..(MaxEditFrames - 1) : RemoveFrameFromAnimation(pos) =>
              /\ OnlyAnimationChanged(selectedAnimation)
              /\ selectedAnimation' = selectedAnimation
              /\ SelAnim'.name = SelAnim.name
              /\ SelAnim'.loopStrategy = SelAnim.loopStrategy
              /\ Len(SelFramesNext) = Len(SelFrames) - 1
              /\ \A k \in 1..Len(SelFramesNext) :
                    SelFramesNext[k] = IF k <= pos THEN SelFrames[k] ELSE SelFrames[k + 1]]_vars
    /\ [][\A pos \in 0..(MaxEditFrames - 1) : \A n \in AuthorDurations :
            UpdateFrameDuration(pos, n) =>
              /\ OnlyAnimationChanged(selectedAnimation)
              /\ selectedAnimation' = selectedAnimation
              /\ SelAnim'.name = SelAnim.name
              /\ SelAnim'.loopStrategy = SelAnim.loopStrategy
              /\ Len(SelFramesNext) = Len(SelFrames)
              /\ \A k \in 1..Len(SelFrames) :
                    IF k = pos + 1
                    THEN /\ SelFramesNext[k].frameIndex = SelFrames[k].frameIndex
                         /\ SelFramesNext[k].duration = IF n = 0 THEN 150 ELSE n
                    ELSE SelFramesNext[k] = SelFrames[k]]_vars

\* the second animation shows frame 0 twice with different durations beside an
\* edited first animation: one of three steps showing frame 0 was removed
C25_Witness ==
    /\ Len(animations) = 2
    /\ selectedAnimation = 1
    /\ animations[1].name = "Walk"
    /\ animations[1].loopStrategy = "PingPong"
    /\ animations[1].frames = <<[frameIndex |-> 1, duration |-> 12]>>
    /\ animations[2].frames = <<[frameIndex |-> 0, duration |-> 12],
                                [frameIndex |-> 0, duration |-> 1]>>

\* the value of the digits d
DigitValue(c) == CHOOSE d \in 0..9 : DigitChar(d) = c

RECURSIVE ReadNat(_)
ReadNat(t) ==
    IF t = <<>> THEN 0 ELSE ReadNat(SubSeq(t, 1, Len(t) - 1)) * 10 + DigitValue(t[Len(t)])

\* the integer a written number stands for
ReadInt(t) == IF t[1] = "-" THEN 0 - ReadNat(Tail(t)) ELSE ReadNat(t)

Emitted == GenerateCode(image, frames, parseMode, gridConfig, sourceViews, animations)

ReadSpacing(spacing) ==
    IF spacing = <<>>
    THEN [originOffset |-> [x |-> 0, y |-> 0], margin |-> [x |-> 0, y |-> 0]]
    ELSE [originOffset |-> [x |-> ReadInt(spacing[1].originOffset.x),
                            y |-> ReadInt(spacing[1].originOffset.y)],
          margin |-> [x |-> ReadInt(spacing[1].margin.x),
                      y |-> ReadInt(spacing[1].margin.y)]]

\* the frames that the resolvers give for a written geometry section
ResolveEmitted(e) ==
    IF e.kind = "grid"
    THEN ParseGridFrames(TRUE,
             [spriteWidth |-> ReadInt(e.grid.spriteWidth),
              spriteHeight |-> ReadInt(e.grid.spriteHeight),
              rows |-> ReadInt(e.grid.rows),
              columns |-> ReadInt(e.grid.columns),
              originOffset |-> ReadSpacing(e.spacing).originOffset,
              margin |-> ReadSpacing(e.spacing).margin],
             <<>>)
    ELSE IF e.kind = "sourceViews"
    THEN ParseSourceViewFrames(
             [i \in 1..Len(e.sourceViews) |->
                 [x |-> ReadInt(e.sourceViews[i].x), y |-> ReadInt(e.sourceViews[i].y),
                  width |-> ReadInt(e.sourceViews[i].width),
                  height |-> ReadInt(e.sourceViews[i].height)]])
    ELSE <<>>

\* C27: resolving frames from the geometry section that the emitter writes
\* (grid: rows, columns, spriteWidth, spriteHeight, with originOffset and margin
\* read as zero when spacing is left out; or the sourceViews list) gives
\* exactly the Frame[] held at emission.
C27_GeometryRoundTrip ==
    Emitted # <<>> => ResolveEmitted(Emitted[1].geometry) = frames

\* a grid with a margin and no origin offset is emitted with its spacing
C27_Witness ==
    /\ Emitted # <<>>
    /\ parseMode = "grid"
    /\ gridConfig.rows = 2
    /\ gridConfig.columns = 3
    /\ gridConfig.originOffset = [x |-> 0, y |-> 0]
    /\ gridConfig.margin = [x |-> 1, y |-> -1]
    /\ Emitted[1].geometry.spacing # <<>>
    /\ Len(frames) = 6


\* C28: in every reachable state in which the selected animation has N >= 1
\* frames the step index satisfies 0 <= currentFrameIdx < N.
C28_StepIndexInRange ==
    (selectedAnimation # NULL /\ NumFrames >= 1) => InRange(SelAnim.frames, currentFrameIdx)

\* C29: pausing and resuming, with no selection change and no edit in between,
\* continues from the step that was current at the pause: neither the pause
\* nor the resume changes the step index, the resumed playback starts its
\* count at the resume, and the first advance after the resume comes no earlier
\* than the step's duration after it.
C29_ResumeKeepsStep ==
    /\ [][TogglePlay =>
            /\ currentFrameIdx' = currentFrameIdx
            /\ (rafPending' => frameIdx' = currentFrameIdx /\ lastTime' = now')]_vars
    /\ [][(TickAdvance /\ Len(visited) = 1 /\ InRange(SelAnim.frames, currentFrameIdx)) =>
            now' - startTime >= At(SelAnim.frames, currentFrameIdx).duration]_vars

\* playback was paused at step 1 of three, resumed at time 2 and left step 1
\* two time units later
C29_Witness ==
    /\ isPlaying
    /\ Strategy = "Loop"
    /\ NumFrames = 3
    /\ At(SelAnim.frames, 1).duration = 2
    /\ startTime = 2
    /\ now = 4
    /\ visited = <<1, 2>>

\* C30: while playback is requested and the selected animation has no frame
\* the playing signal is true with no tick scheduled; the append of a frame
\* to that animation schedules a tick for step 0 and leaves the playing
\* signal true, without any Play action.
C30_PlayWaitsForFrames ==
    /\ []((isPlaying /\ selectedAnimation # NULL /\ NumFrames = 0) =>
            (~rafPending /\ rafCount = 0))
    /\ [][(isPlaying /\ selectedAnimation # NULL /\ NumFrames = 0 /\ NumFrames' = 1
           /\ selectedAnimation' = selectedAnimation) =>
            /\ isPlaying'
            /\ rafPending'
            /\ rafCount' = 1
            /\ currentFrameIdx' = 0
            /\ frameIdx' = 0
            /\ lastTime' = now']_vars
    /\ [][(isPlaying /\ selectedAnimation # NULL /\ NumFrames = 0 /\ AnyTick) => FALSE]_vars

\* Play was pressed at time 0 on a new animation; frames were appended at time 1
\* and playback has advanced since, with no event after the appends
C30_Witness ==
    /\ isPlaying
    /\ Len(animations) = 1
    /\ NumFrames = 2
    /\ startTime = 1
    /\ stepEntered = 2
    /\ visited = <<0, 1>>

====
